---- MODULE Spec2Model ----
(***************************************************************************)
(* Model of the backend of the private chatbot extension:                  *)
(*   - ConfigService (backend/src/services/configService.ts): the          *)
(*     configuration store, its file persistence and its views;            *)
(*   - LLMService (llmService.ts, kept in configService.js lines 189-367): *)
(*     request validation and the outbound completion call.                *)
(*                                                                         *)
(* JavaScript strings are sequences of one-character strings, so that      *)
(* startsWith, trim, substring and parseInt are computed and not assumed.  *)
(* temperature is a fixed-point number in tenths (0.3 is 3, 2.0 is 20).    *)
(***************************************************************************)
EXTENDS Integers, Sequences, FiniteSets, TLC

VARIABLES
    env,        \* process.env: the LLM_* variables that are set
    file,       \* the persisted config.json: absent, unparsable or an object
    config,     \* ConfigService.config (a Partial<LLMConfig>)
    phase,      \* "init" before new ConfigService(), then "running" or "crashed"
    disk,       \* what fs.writeFileSync does in this run: "ok", "readonly" or "full"
    last,       \* the last store operation and the message of the error it threw
    gw          \* the last or current LLMService call: request, payload, outcome

storeVars == <<env, file, config, phase, disk, last>>

vars == <<env, file, config, phase, disk, last, gw>>

-----------------------------------------------------------------------------
(* Program constants *)

MinMaxTokens == 1
MaxMaxTokens == 4000
MinTemperature == 0
MaxTemperature == 20
MinRequestTimeout == 1000
MaxRequestTimeout == 120000
DefaultMaxTokens == 150
DefaultTemperature == 3
DefaultRequestTimeout == 30000
MaskPrefixLength == 10
MaxPromptLength == 10000
ErrorStatus == 400
ResponseEchoLength == 100
TestMaxTokens == 20
ValidateStatusLimit == 500

\* JavaScript's NaN (parseInt/parseFloat of a string with no leading number) and
\* JSON's null (what JSON.stringify writes for NaN), as values no number equals.
NaN == 0 - 999999
JsonNull == 0 - 999998

-----------------------------------------------------------------------------
(* String literals of the source *)

EmptyStr == << >>
StrHttp == <<"h", "t", "t", "p">>
StrHttpScheme == <<"h", "t", "t", "p", ":", "/", "/">>
StrHttpsScheme == <<"h", "t", "t", "p", "s", ":", "/", "/">>
StrEllipsis == <<".", ".", ".">>
StrNotConfigured == <<"[", "N", "o", "t", " ", "c", "o", "n", "f", "i", "g", "u", "r", "e", "d", "]">>
StrDefaultModel == <<"m", "e", "t", "a", "-", "l", "l", "a", "m", "a", "/", "M", "e", "t", "a", "-", "L", "l", "a", "m", "a", "-", "3", "-", "8", "B">>
StrDefaultMaxTokens == <<"1", "5", "0">>
StrDefaultTemperature == <<"0", ".", "3">>
StrDefaultRequestTimeout == <<"3", "0", "0", "0", "0">>
StrTrue == <<"t", "r", "u", "e">>
StrBearer == <<"B", "e", "a", "r", "e", "r", " ">>
StrTestPrompt ==
    <<"H", "e", "l", "l", "o", ",", " ", "t", "h", "i", "s", " ", "i", "s", " ", "a", " ",
      "c", "o", "n", "n", "e", "c", "t", "i", "o", "n", " ", "t", "e", "s", "t", ".", " ",
      "P", "l", "e", "a", "s", "e", " ", "r", "e", "s", "p", "o", "n", "d", " ", "w", "i",
      "t", "h", " ", "'", "C", "o", "n", "n", "e", "c", "t", "i", "o", "n", " ", "s", "u",
      "c", "c", "e", "s", "s", "f", "u", "l", "'", ".">>

-----------------------------------------------------------------------------
(* JavaScript string and number primitives *)

Min(a, b) == IF a <= b THEN a ELSE b

\* String.prototype.startsWith
StartsWith(s, p) == Len(s) >= Len(p) /\ SubSeq(s, 1, Len(p)) = p

\* String.prototype.substring(0, n)
Substring0(s, n) == SubSeq(s, 1, Min(n, Len(s)))

\* s contains sub as a contiguous substring (String.prototype.includes)
Includes(s, sub) ==
    \E i \in 0..(Len(s) - Len(sub)) : SubSeq(s, i + 1, i + Len(sub)) = sub

IsSpace(c) == c = " "

RECURSIVE TrimStart(_)
TrimStart(s) == IF s # << >> /\ IsSpace(Head(s)) THEN TrimStart(Tail(s)) ELSE s

RECURSIVE TrimEnd(_)
TrimEnd(s) ==
    IF s # << >> /\ IsSpace(s[Len(s)]) THEN TrimEnd(SubSeq(s, 1, Len(s) - 1)) ELSE s

\* String.prototype.trim
Trim(s) == TrimEnd(TrimStart(s))

Digits == {"0", "1", "2", "3", "4", "5", "6", "7", "8", "9"}

DigitVal(c) ==
    CASE c = "0" -> 0 [] c = "1" -> 1 [] c = "2" -> 2 [] c = "3" -> 3 [] c = "4" -> 4
      [] c = "5" -> 5 [] c = "6" -> 6 [] c = "7" -> 7 [] c = "8" -> 8 [] c = "9" -> 9

\* the longest prefix of s made of digits
RECURSIVE DigitPrefix(_)
DigitPrefix(s) ==
    IF s # << >> /\ Head(s) \in Digits THEN <<Head(s)>> \o DigitPrefix(Tail(s)) ELSE << >>

RECURSIVE DigitsValue(_, _)
DigitsValue(ds, acc) ==
    IF ds = << >> THEN acc ELSE DigitsValue(Tail(ds), acc * 10 + DigitVal(Head(ds)))

\* an optional sign: <<sign, rest>>
SplitSign(s) ==
    IF s # << >> /\ Head(s) = "-" THEN <<0 - 1, Tail(s)>>
    ELSE IF s # << >> /\ Head(s) = "+" THEN <<1, Tail(s)>>
    ELSE <<1, s>>

\* parseInt(s): leading white space, a sign, then decimal digits; NaN without digits
ParseInt(s) ==
    LET sg == SplitSign(TrimStart(s))
        ds == DigitPrefix(sg[2])
    IN  IF ds = << >> THEN NaN ELSE sg[1] * DigitsValue(ds, 0)

\* parseFloat(s), in tenths: digits, an optional "." and digits; NaN without digits.
\* Decimals after the first are dropped (the model's numbers have one decimal).
ParseFloat(s) ==
    LET sg == SplitSign(TrimStart(s))
        ip == DigitPrefix(sg[2])
        rest == SubSeq(sg[2], Len(ip) + 1, Len(sg[2]))
        fp == IF rest # << >> /\ Head(rest) = "." THEN DigitPrefix(Tail(rest)) ELSE << >>
    IN  IF ip = << >> /\ fp = << >> THEN NaN
        ELSE sg[1] * (DigitsValue(ip, 0) * 10 + (IF fp = << >> THEN 0 ELSE DigitVal(Head(fp))))

\* a < b and a > b on JavaScript numbers: every comparison with NaN is false
NumLt(a, b) == a # NaN /\ b # NaN /\ a < b
NumGt(a, b) == a # NaN /\ b # NaN /\ a > b

\* !v for a string and for a number
FalsyStr(s) == s = << >>
FalsyNum(n) == n = 0 \/ n = NaN \/ n = JsonNull

-----------------------------------------------------------------------------
(* Objects: a Partial<LLMConfig> is a function on the fields that are present *)

Fields == {"apiUrl", "apiToken", "defaultModel", "maxTokens", "temperature",
           "requestTimeout", "enableLogging"}

Has(o, f) == f \in DOMAIN o

EmptyObj == [f \in {} |-> 0]

\* { ...a, ...b }
Spread(a, b) ==
    [f \in (DOMAIN a) \cup (DOMAIN b) |-> IF f \in DOMAIN b THEN b[f] ELSE a[f]]

\* JSON.parse(JSON.stringify(o)): NaN is written as null
JsonValue(f, v) ==
    IF f \in {"maxTokens", "temperature", "requestTimeout"} /\ v = NaN THEN JsonNull ELSE v

Stringify(o) == [f \in DOMAIN o |-> JsonValue(f, o[f])]

FileAbsent == [kind |-> "absent", data |-> EmptyObj]
FileCorrupt == [kind |-> "corrupt", data |-> EmptyObj]
FileJson(o) == [kind |-> "json", data |-> o]

-----------------------------------------------------------------------------
(* ConfigService: pure parts *)

\* process.env.NAME || dflt
EnvOr(e, name, dflt) == IF name \in DOMAIN e /\ e[name] # << >> THEN e[name] ELSE dflt

\* the object built by initializeDefaultConfig
InitialDefaults(e) ==
    [apiUrl         |-> EnvOr(e, "LLM_API_URL", EmptyStr),
     apiToken       |-> EnvOr(e, "LLM_API_TOKEN", EmptyStr),
     defaultModel   |-> EnvOr(e, "LLM_DEFAULT_MODEL", StrDefaultModel),
     maxTokens      |-> ParseInt(EnvOr(e, "LLM_MAX_TOKENS", StrDefaultMaxTokens)),
     temperature    |-> ParseFloat(EnvOr(e, "LLM_TEMPERATURE", StrDefaultTemperature)),
     requestTimeout |-> ParseInt(EnvOr(e, "LLM_REQUEST_TIMEOUT", StrDefaultRequestTimeout)),
     enableLogging  |-> ("LLM_ENABLE_LOGGING" \in DOMAIN e /\ e["LLM_ENABLE_LOGGING"] = StrTrue)]

\* defaultConfig of getConfig
DefaultConfig ==
    [apiUrl         |-> EmptyStr,
     apiToken       |-> EmptyStr,
     defaultModel   |-> StrDefaultModel,
     maxTokens      |-> DefaultMaxTokens,
     temperature    |-> DefaultTemperature,
     requestTimeout |-> DefaultRequestTimeout,
     enableLogging  |-> FALSE]

\* getConfig() with the spread the other way round: the defaults over the stored object
GetConfigDefaultsWin(c) == Spread(c, DefaultConfig)

\* getConfig() on the stored object c
GetConfig(c) == Spread(DefaultConfig, c)

\* validateConfig: the message of the first check that throws, "" when none does
ValidateConfig(c) ==
    IF Has(c, "apiUrl") /\ ~FalsyStr(c.apiUrl) /\ ~StartsWith(c.apiUrl, StrHttp)
        THEN "API URL must start with http:// or https://"
    ELSE IF Has(c, "maxTokens")
            /\ (NumLt(c.maxTokens, MinMaxTokens) \/ NumGt(c.maxTokens, MaxMaxTokens))
        THEN "maxTokens must be between 1 and 4000"
    ELSE IF Has(c, "temperature")
            /\ (NumLt(c.temperature, MinTemperature) \/ NumGt(c.temperature, MaxTemperature))
        THEN "temperature must be between 0 and 2"
    ELSE IF Has(c, "requestTimeout")
            /\ (NumLt(c.requestTimeout, MinRequestTimeout)
                \/ NumGt(c.requestTimeout, MaxRequestTimeout))
        THEN "requestTimeout must be between 1000ms and 120000ms"
    ELSE ""

\* isConfigured()
IsConfigured(c) ==
    LET g == GetConfig(c) IN ~FalsyStr(g.apiUrl) /\ ~FalsyStr(g.apiToken)

\* getConfigStatus() with the token looked at only when the URL is there
GetConfigStatusElseIf(c) ==
    LET g == Spread([apiUrl |-> EmptyStr, apiToken |-> EmptyStr], c)
        missingFields ==
            IF FalsyStr(g.apiUrl) THEN <<"apiUrl">>
            ELSE IF FalsyStr(g.apiToken) THEN <<"apiToken">> ELSE << >>
    IN  [configured |-> Len(missingFields) = 0, missingFields |-> missingFields]

\* getConfigStatus()
GetConfigStatus(c) ==
    LET g == GetConfig(c)
        missingFields ==
            (IF FalsyStr(g.apiUrl) THEN <<"apiUrl">> ELSE << >>)
            \o (IF FalsyStr(g.apiToken) THEN <<"apiToken">> ELSE << >>)
    IN  [configured |-> Len(missingFields) = 0, missingFields |-> missingFields]

\* getMaskedConfig()
GetMaskedConfig(c) ==
    LET g == GetConfig(c)
    IN  [g EXCEPT
            !.apiToken = IF ~FalsyStr(g.apiToken)
                         THEN Substring0(g.apiToken, MaskPrefixLength) \o StrEllipsis
                         ELSE EmptyStr,
            !.apiUrl = IF ~FalsyStr(g.apiUrl) THEN g.apiUrl ELSE StrNotConfigured]

-----------------------------------------------------------------------------------------------------------------------------------------------------
(* LLMService: pure parts *)

\* a || b on strings and on numbers
OrStr(a, b) == IF FalsyStr(a) THEN b ELSE a
OrNum(a, b) == IF FalsyNum(a) THEN b ELSE a

\* request.f, undefined (falsy) when the request has no field f
ReqStr(req, f) == IF Has(req, f) THEN req[f] ELSE EmptyStr
ReqNum(req, f) == IF Has(req, f) THEN req[f] ELSE NaN

\* validateRequest(request).errors
ValidateRequestErrors(req) ==
    (IF FalsyStr(ReqStr(req, "prompt")) \/ Len(Trim(req.prompt)) = 0
     THEN <<"Prompt is required and cannot be empty">> ELSE << >>)
    \o (IF ~FalsyStr(ReqStr(req, "prompt")) /\ Len(req.prompt) > MaxPromptLength
        THEN <<"Prompt is too long (maximum 10,000 characters)">> ELSE << >>)
    \o (IF ~FalsyNum(ReqNum(req, "max_tokens"))
           /\ (NumLt(req.max_tokens, MinMaxTokens) \/ NumGt(req.max_tokens, MaxMaxTokens))
        THEN <<"max_tokens must be between 1 and 4000">> ELSE << >>)
    \o (IF ~FalsyNum(ReqNum(req, "temperature"))
           /\ (NumLt(req.temperature, MinTemperature) \/ NumGt(req.temperature, MaxTemperature))
        THEN <<"temperature must be between 0 and 2">> ELSE << >>)

\* validateRequest(request)
ValidateRequestResult(req) ==
    LET errors == ValidateRequestErrors(req)
    IN  [valid |-> Len(errors) = 0, errors |-> errors]

\* the payload of sendChatCompletion, from the request and the getConfig() object
Payload(req, cfg) ==
    [model       |-> OrStr(ReqStr(req, "model"), OrStr(cfg.defaultModel, StrDefaultModel)),
     prompt      |-> ReqStr(req, "prompt"),
     max_tokens  |-> OrNum(ReqNum(req, "max_tokens"), OrNum(cfg.maxTokens, DefaultMaxTokens)),
     temperature |-> OrNum(ReqNum(req, "temperature"),
                           OrNum(cfg.temperature, DefaultTemperature))]

\* what the network gives back to axios.post. data is response.data, an object that
\* holds a list of choices or none; a choice holds a text, a (message) content, both
\* or neither.
NoOutcome ==
    [kind |-> "none", status |-> 0, statusText |-> "", bodyMessage |-> "", data |-> EmptyObj]
Response(status, statusText, bodyMessage) ==
    [kind |-> "response", status |-> status, statusText |-> statusText,
     bodyMessage |-> bodyMessage, data |-> EmptyObj]
ResponseWith(choices) ==
    [kind |-> "response", status |-> 200, statusText |-> "OK", bodyMessage |-> "",
     data |-> [choices |-> choices]]
NoResponse ==
    [kind |-> "noResponse", status |-> 0, statusText |-> "", bodyMessage |-> "",
     data |-> EmptyObj]
\* no response within the timeout given to axios.post
TimedOut ==
    [kind |-> "timeout", status |-> 0, statusText |-> "", bodyMessage |-> "",
     data |-> EmptyObj]
SetupError ==
    [kind |-> "setupError", status |-> 0, statusText |-> "", bodyMessage |-> "",
     data |-> EmptyObj]

\* what a call returns or throws. kind names the message template of the error:
\*   ConfigurationError  "LLM API URL not configured" / "LLM API token not configured"
\*   UpstreamError       "LLM API Error (<status>): <detail>"
\*   NetworkError        "LLM API is not responding. Please check ..."
\*   RequestError        "Request failed: <cause>", with the cause's own status and detail
\*   NoResponseError     "No response from LLM"
NoReturn == [kind |-> "none", field |-> "", status |-> 0, detail |-> "", cause |-> ""]
Returned == [kind |-> "ok", field |-> "", status |-> 0, detail |-> "", cause |-> ""]
ConfigurationError(field) ==
    [kind |-> "ConfigurationError", field |-> field, status |-> 0, detail |-> "", cause |-> ""]
UpstreamError(status, detail) ==
    [kind |-> "UpstreamError", field |-> "", status |-> status, detail |-> detail, cause |-> ""]
NetworkError == [kind |-> "NetworkError", field |-> "", status |-> 0, detail |-> "", cause |-> ""]
RequestError(cause, status, detail) ==
    [kind |-> "RequestError", field |-> "", status |-> status, detail |-> detail,
     cause |-> cause]

NoResponseError ==
    [kind |-> "NoResponseError", field |-> "", status |-> 0, detail |-> "", cause |-> ""]

\* what sendCompletion returns (ret.kind = "ok", with the text) or throws
NoCompletion == [ret |-> NoReturn, text |-> EmptyStr]

\* what testConnection returns; failure is the error whose message follows
\* "Connection failed: ", text the part of the response put into the message
NoResult ==
    [returned |-> FALSE, success |-> FALSE, message |-> "", text |-> EmptyStr,
     failure |-> NoReturn, responseTime |-> FALSE]

\* no getConfigStatus() result held
NoStatus == [configured |-> FALSE, missingFields |-> << >>]

\* the HTTP response of a route: its status and the keys of its JSON body
NoHttp == [status |-> 0, keys |-> {}]

\* no LLMService call made yet
GwIdle ==
    [op |-> "none", stage |-> "idle", req |-> EmptyObj, cfg |-> EmptyObj,
     url |-> EmptyStr, authorization |-> EmptyStr,
     payload |-> EmptyObj, timeout |-> 0, posts |-> 0,
     validation |-> [valid |-> TRUE, errors |-> << >>],
     response |-> NoOutcome, ret |-> NoReturn,
     completion |-> NoCompletion, result |-> NoResult, http |-> NoHttp,
     view |-> EmptyObj, status |-> NoStatus]

\* error.response.data?.error?.message || error.response.statusText
ErrorMessageOf(o) == IF o.bodyMessage # "" THEN o.bodyMessage ELSE o.statusText

\* validateStatus of the axios call
ValidateStatus(status) == status < ValidateStatusLimit

\* the try/catch of sendChatCompletion around an axios.post that ended with o.
\* axios resolves with the response when validateStatus accepts its status and
\* rejects with an error that carries the response otherwise; an error without a
\* response carries the request; an error raised while setting the request up
\* carries neither.
Classify(o) ==
    IF o.kind = "response" /\ ValidateStatus(o.status)
    THEN IF o.status >= ErrorStatus
         THEN \* the Error thrown in the try block has no response and no request
              RequestError("LLM API returned error", o.status, o.statusText)
         ELSE Returned
    ELSE IF o.kind = "response" THEN UpstreamError(o.status, ErrorMessageOf(o))
    ELSE IF o.kind \in {"noResponse", "timeout"} THEN NetworkError
    ELSE RequestError("setup", 0, "")

\* an axios call without the timeout option
NoRequestTimeout(cfg) == 0

\* the timeout option of the axios call; 0 is axios's "no timeout"
RequestTimeoutOf(cfg) == OrNum(cfg.requestTimeout, DefaultRequestTimeout)

\* the text of a choice with the message content looked at first
ChoiceTextContentFirst(choice) ==
    OrStr(IF Has(choice, "content") THEN choice.content ELSE EmptyStr,
          OrStr(IF Has(choice, "text") THEN choice.text ELSE EmptyStr, EmptyStr))

\* choice.text || choice.message?.content || ''
ChoiceText(choice) ==
    OrStr(IF Has(choice, "text") THEN choice.text ELSE EmptyStr,
          OrStr(IF Has(choice, "content") THEN choice.content ELSE EmptyStr, EmptyStr))

\* sendCompletion after its await: ret is what sendChatCompletion returned or threw,
\* data the response.data it returned
SendCompletionResult(ret, data) ==
    IF ret.kind # "ok" THEN [ret |-> ret, text |-> EmptyStr]
    ELSE IF Has(data, "choices") /\ Len(data.choices) > 0
    THEN [ret |-> Returned, text |-> ChoiceText(data.choices[1])]
    ELSE [ret |-> NoResponseError, text |-> EmptyStr]

\* testConnection without its catch block: a failure of sendCompletion leaves it
TestConnectionResultUncaught(c) ==
    IF c.ret.kind = "ok"
    THEN [returned |-> TRUE, success |-> TRUE,
          message |-> "Connection successful! Response: <text>...",
          text |-> Substring0(c.text, ResponseEchoLength),
          failure |-> NoReturn, responseTime |-> TRUE]
    ELSE [NoResult EXCEPT !.failure = c.ret]

\* testConnection after its await of sendCompletion
TestConnectionResult(c) ==
    IF c.ret.kind = "ok"
    THEN [returned |-> TRUE, success |-> TRUE,
          message |-> "Connection successful! Response: <text>...",
          text |-> Substring0(c.text, ResponseEchoLength),
          failure |-> NoReturn, responseTime |-> TRUE]
    ELSE [returned |-> TRUE, success |-> FALSE,
          message |-> "Connection failed: <failure>", text |-> EmptyStr,
          failure |-> c.ret, responseTime |-> FALSE]

-----------------------------------------------------------------------------
(* Inputs *)

UrlHttpA == <<"h", "t", "t", "p", ":", "/", "/", "a">>
UrlHttpx == <<"h", "t", "t", "p", "x", ":", "/", "/", "a">>
UrlFtp == <<"f", "t", "p", ":", "/", "/", "b", "a", "d">>
TokShort == <<"t", "o", "k">>
TokDots == <<"a", "b", "c", "d", "e", "f", "g", "h", "i", "j", ".", ".", ".">>
TokLong == <<"a", "b", "c", "d", "e", "f", "g", "h", "i", "j", "k", "l">>
ModelM == <<"m">>

UrlHttpATrailing == <<"h", "t", "t", "p", ":", "/", "/", "a", " ">>
UrlHttpALeading == <<" ", "h", "t", "t", "p", ":", "/", "/", "a">>
TokBlank == <<" ", " ">>
TokSpaced == <<" ", "t", "o", "k", " ">>

UrlInputs == {EmptyStr, UrlHttpA, UrlHttpx, UrlFtp, UrlHttpATrailing, UrlHttpALeading}
TokenInputs == {EmptyStr, TokShort, TokDots, TokBlank, TokSpaced}

One(f, v) == [g \in {f} |-> v]

\* partial updates every field of which is within its bound
ValidPartials ==
    {EmptyObj,
     [apiUrl |-> UrlHttpA, apiToken |-> TokShort],
     One("apiToken", TokDots),
     One("apiUrl", EmptyStr),
     One("apiToken", EmptyStr),
     One("maxTokens", MinMaxTokens),
     [maxTokens |-> MinMaxTokens, temperature |-> MaxTemperature,
      requestTimeout |-> MinRequestTimeout],
     [defaultModel |-> ModelM, maxTokens |-> MaxMaxTokens, temperature |-> MinTemperature,
      requestTimeout |-> MaxRequestTimeout, enableLogging |-> TRUE]}

\* partial updates with a field outside its bound, alone or next to valid fields
InvalidPartials ==
    {One("apiUrl", UrlFtp),
     One("apiUrl", UrlHttpx),
     One("maxTokens", MinMaxTokens - 1),
     One("maxTokens", MaxMaxTokens + 1),
     One("temperature", MinTemperature - 1),
     One("temperature", MaxTemperature + 1),
     One("requestTimeout", MinRequestTimeout - 1),
     One("requestTimeout", MaxRequestTimeout + 1),
     [defaultModel |-> ModelM, maxTokens |-> MaxMaxTokens + 1],
     [apiToken |-> TokShort, temperature |-> MaxTemperature + 1],
     [apiUrl |-> UrlFtp, maxTokens |-> MaxMaxTokens],
     [apiUrl |-> UrlHttpx, enableLogging |-> TRUE],
     [maxTokens |-> MinMaxTokens, temperature |-> MaxTemperature,
      requestTimeout |-> MinRequestTimeout - 1]}

PartialInputs == ValidPartials \cup InvalidPartials

\* environments the process may be started in
Envs ==
    {EmptyObj,
     [LLM_API_URL |-> UrlHttpA, LLM_API_TOKEN |-> TokLong, LLM_MAX_TOKENS |-> <<"2", "0", "0">>,
      LLM_TEMPERATURE |-> <<"0", ".", "5">>, LLM_ENABLE_LOGGING |-> StrTrue],
     [LLM_API_URL |-> UrlFtp, LLM_API_TOKEN |-> EmptyStr, LLM_MAX_TOKENS |-> <<"a", "b", "c">>,
      LLM_TEMPERATURE |-> <<"2", ".", "5">>, LLM_REQUEST_TIMEOUT |-> <<"5", "0", "0">>]}

\* a config.json that holds some of the fields, each within its bound
PartialFile ==
    FileJson([apiUrl |-> UrlHttpA, defaultModel |-> ModelM, temperature |-> MinTemperature])

\* contents of config.json before the process starts
InitialFiles ==
    {FileAbsent, FileCorrupt, PartialFile,
     FileJson([apiUrl |-> UrlHttpA, apiToken |-> TokShort, defaultModel |-> ModelM,
               maxTokens |-> MaxMaxTokens + 1000, temperature |-> MinTemperature,
               requestTimeout |-> MinRequestTimeout, enableLogging |-> FALSE])}

\* what fs.writeFileSync does during the run: it writes the file; or it throws and
\* leaves the file as it was (no write permission); or it throws after truncating
\* the file (no space left)
Disks == {"ok", "readonly", "full"}

PromptHello == <<"H", "e", "l", "l", "o">>

Req(o) == Spread(One("prompt", PromptHello), o)

\* requests: one optional field at a time at and around its bounds, then several
RequestInputs ==
    {Req(EmptyObj)}
    \cup {Req(One("max_tokens", v)) :
            v \in {MinMaxTokens - 2, MinMaxTokens - 1, MinMaxTokens, MaxMaxTokens,
                   MaxMaxTokens + 1, MaxMaxTokens + 1000}}
    \cup {Req(One("temperature", v)) :
            v \in {MinTemperature - 1, MinTemperature, MaxTemperature, MaxTemperature + 1}}
    \cup {Req(One("model", EmptyStr)), Req(One("model", ModelM))}
    \cup {Req([model |-> ModelM, max_tokens |-> MinMaxTokens, temperature |-> MaxTemperature]),
          Req([max_tokens |-> MaxMaxTokens, temperature |-> MinTemperature]),
          Req([max_tokens |-> MaxMaxTokens + 1, temperature |-> MaxTemperature + 1])}

PromptBlank == <<" ", " ">>
PromptMax == [i \in 1..MaxPromptLength |-> "x"]
PromptTooLong == [i \in 1..(MaxPromptLength + 1) |-> "x"]

\* requests given to validateRequest: the ones above, and requests without a prompt
\* or with a blank, longest-allowed or too long one, alone and next to other
\* violations
ValidateInputs ==
    RequestInputs
    \cup {EmptyObj,
          One("prompt", EmptyStr),
          One("prompt", PromptBlank),
          One("prompt", PromptMax),
          One("prompt", PromptTooLong),
          [prompt |-> PromptBlank, max_tokens |-> MaxMaxTokens + 1,
           temperature |-> MaxTemperature + 1],
          [prompt |-> PromptTooLong, max_tokens |-> MinMaxTokens - 2,
           temperature |-> MinTemperature - 1],
          [prompt |-> PromptBlank, max_tokens |-> MinMaxTokens - 1],
          [max_tokens |-> MaxMaxTokens, temperature |-> MaxTemperature + 1]}

\* outcomes of the outbound call
NetOutcomes ==
    {Response(200, "OK", ""),
     Response(400, "Bad Request", ""),
     Response(404, "Not Found", "model not found"),
     Response(500, "Internal Server Error", "upstream failure"),
     Response(503, "Service Unavailable", ""),
     NoResponse,
     SetupError}

TextHi == <<"h", "i">>
TextYo == <<"y", "o">>

\* successful responses by the choices they hold
ChoiceOutcomes ==
    {ResponseWith(<< >>),
     ResponseWith(<<One("text", TextHi)>>),
     ResponseWith(<<One("text", TextHi), One("text", TextYo)>>),
     ResponseWith(<<One("content", TextYo)>>),
     ResponseWith(<<One("content", TextYo), One("text", TextHi)>>),
     ResponseWith(<<[text |-> TextHi, content |-> TextYo]>>),
     ResponseWith(<<[text |-> EmptyStr, content |-> TextYo]>>),
     ResponseWith(<<EmptyObj>>)}

CallOutcomes == NetOutcomes \cup ChoiceOutcomes

\* requests given to sendChatCompletion by a caller of the service
CallRequests ==
    {Req(EmptyObj), Req(One("max_tokens", MaxMaxTokens + 1)), Req(One("model", ModelM))}

\* arguments of sendCompletion(prompt, maxTokens)
CompletionInputs ==
    {One("prompt", PromptHello),
     [prompt |-> PromptHello, maxTokens |-> MinMaxTokens],
     [prompt |-> PromptHello, maxTokens |-> MinMaxTokens - 1]}

\* bodies of POST /api/chat/completion
CompletionBodies ==
    {Req(EmptyObj),
     Req(One("max_tokens", MinMaxTokens - 1)),
     Req(One("max_tokens", MaxMaxTokens + 1)),
     Req(One("temperature", MinTemperature)),
     Req(One("temperature", MaxTemperature + 1)),
     EmptyObj,
     One("prompt", PromptBlank),
     One("prompt", PromptTooLong)}

\* bodies of POST /api/chat/simple
SimpleBodies ==
    CompletionInputs
    \cup {EmptyObj,
          One("prompt", EmptyStr),
          One("prompt", PromptBlank),
          One("prompt", PromptTooLong),
          [prompt |-> PromptHello, maxTokens |-> MaxMaxTokens + 1]}

\* partial updates, URLs and tokens written while the store is read
WritePartials ==
    {EmptyObj,
     [apiUrl |-> UrlHttpA, apiToken |-> TokShort],
     One("apiToken", EmptyStr),
     One("maxTokens", MinMaxTokens),
     [defaultModel |-> ModelM, maxTokens |-> MaxMaxTokens, temperature |-> MinTemperature,
      requestTimeout |-> MaxRequestTimeout, enableLogging |-> TRUE],
     One("maxTokens", MaxMaxTokens + 1),
     [apiUrl |-> UrlHttpx, enableLogging |-> TRUE],
     [maxTokens |-> MinMaxTokens, temperature |-> MaxTemperature,
      requestTimeout |-> MinRequestTimeout - 1]}
WriteUrls == {EmptyStr, UrlHttpx, UrlHttpATrailing}
WriteTokens == {TokShort, TokBlank, TokSpaced}

\* bodies of POST /api/config
ConfigBodies ==
    {EmptyObj,
     [apiUrl |-> UrlHttpA, apiToken |-> TokShort],
     [apiUrl |-> UrlHttpA, apiToken |-> TokBlank],
     [apiUrl |-> UrlFtp, apiToken |-> TokShort],
     One("apiUrl", UrlHttpA),
     One("apiToken", TokShort),
     [apiUrl |-> EmptyStr, apiToken |-> TokShort],
     [apiUrl |-> UrlHttpA, apiToken |-> EmptyStr],
     [apiUrl |-> UrlHttpA, maxTokens |-> MinMaxTokens],
     One("maxTokens", MinMaxTokens),
     One("maxTokens", MaxMaxTokens + 1),
     [maxTokens |-> MaxMaxTokens, enableLogging |-> TRUE]}

\* bodies of POST /api/config/api
ApiBodies ==
    {EmptyObj,
     One("apiUrl", UrlHttpA),
     [apiUrl |-> UrlHttpA, apiToken |-> EmptyStr],
     [apiUrl |-> UrlHttpA, apiToken |-> TokShort],
     [apiUrl |-> UrlHttpATrailing, apiToken |-> TokSpaced],
     [apiUrl |-> UrlHttpA, apiToken |-> TokBlank],
     [apiUrl |-> UrlFtp, apiToken |-> TokShort]}

\* requests validated while the store is written
WriteRequests == {Req(EmptyObj), Req(One("max_tokens", MaxMaxTokens + 1))}

\* configuration changes made while calls are made
CallPartials ==
    {[apiUrl |-> UrlHttpA, apiToken |-> TokShort],
     One("apiToken", EmptyStr),
     [maxTokens |-> MaxMaxTokens, requestTimeout |-> MaxRequestTimeout]}

\* configuration changes made while the gateway is in use
GatewayPartials ==
    {[apiUrl |-> UrlHttpA, apiToken |-> TokShort],
     One("apiUrl", EmptyStr),
     One("apiToken", EmptyStr),
     [defaultModel |-> ModelM, maxTokens |-> MaxMaxTokens, temperature |-> MinTemperature,
      requestTimeout |-> MaxRequestTimeout, enableLogging |-> TRUE]}

-----------------------------------------------------------------------------
(* ConfigService: operations *)

WriteFails(d) == d # "ok"

\* the file after fs.writeFileSync of object c on disk d
SavedFile(f, c, d) ==
    CASE d = "ok" -> FileJson(Stringify(c))
      [] d = "readonly" -> f
      [] d = "full" -> FileCorrupt

SaveError == "Failed to save configuration"

\* changed: the operation left getConfig() different from what it was
Op(name, err, changed) == [op |-> name, err |-> err, changed |-> changed]

Init ==
    /\ env \in Envs
    /\ file \in InitialFiles
    /\ disk \in Disks
    /\ config = EmptyObj
    /\ phase = "init"
    /\ last = Op("none", "", FALSE)
    /\ gw = GwIdle

\* new ConfigService(): loadConfig(). JSON.parse of an unparsable file throws into
\* the catch block; so does the saveConfig() of the first initializeDefaultConfig(),
\* and the catch block runs initializeDefaultConfig() again.
Construct ==
    /\ phase = "init"
    /\ IF file.kind = "json"
       THEN /\ config' = file.data
            /\ file' = file
            /\ phase' = "running"
            /\ last' = Op("construct", "", GetConfig(file.data) # GetConfig(config))
       ELSE LET f1 == IF file.kind = "absent"
                      THEN SavedFile(file, InitialDefaults(env), disk) ELSE file
                retried == file.kind = "corrupt" \/ WriteFails(disk)
                f2 == IF retried THEN SavedFile(f1, InitialDefaults(env), disk) ELSE f1
            IN  /\ config' = InitialDefaults(env)
                /\ file' = f2
                /\ IF WriteFails(disk)
                   THEN /\ phase' = "crashed"
                        /\ last' = Op("construct", SaveError, TRUE)
                   ELSE /\ phase' = "running"
                        /\ last' = Op("construct", "", TRUE)
    /\ UNCHANGED <<env, disk, gw>>

\* updateConfig(newConfig) on the stored object c and file f: <<config', file', error>>
UpdateResult(c, f, newConfig, d) ==
    LET err == ValidateConfig(newConfig)
        merged == Spread(c, newConfig)
    IN  IF err # "" THEN <<c, f, err>>
        ELSE <<merged, SavedFile(f, merged, d), IF WriteFails(d) THEN SaveError ELSE "">>

\* updateConfig(newConfig) that assigns the fields of newConfig one call at a time
UpdateConfigFieldwise(newConfig) ==
    /\ phase = "running"
    /\ \E f \in DOMAIN newConfig :
          LET r == UpdateResult(config, file, One(f, newConfig[f]), disk)
          IN  /\ config' = r[1]
              /\ file' = r[2]
              /\ last' = Op("updateConfig", r[3], GetConfig(r[1]) # GetConfig(config))
    /\ UNCHANGED <<env, phase, disk, gw>>

\* updateConfig(newConfig) that calls saveConfig() before it assigns the merged object
UpdateConfigSaveFirst(newConfig) ==
    /\ phase = "running"
    /\ LET r == UpdateResult(config, file, newConfig, disk)
       IN  /\ config' = r[1]
           /\ file' = IF r[3] = "" THEN SavedFile(file, config, disk) ELSE r[2]
           /\ last' = Op("updateConfig", r[3], GetConfig(r[1]) # GetConfig(config))
    /\ UNCHANGED <<env, phase, disk, gw>>

\* updateConfig(newConfig) that assigns newConfig in place of the merged object
UpdateConfigReplacing(newConfig) ==
    /\ phase = "running"
    /\ LET r == UpdateResult(EmptyObj, file, newConfig, disk)
       IN  /\ config' = IF r[3] = "" THEN r[1] ELSE config
           /\ file' = r[2]
           /\ last' = Op("updateConfig", r[3],
                          r[3] = "" /\ GetConfig(r[1]) # GetConfig(config))
    /\ UNCHANGED <<env, phase, disk, gw>>

UpdateConfig(newConfig) ==
    /\ phase = "running"
    /\ LET r == UpdateResult(config, file, newConfig, disk)
       IN  /\ config' = r[1]
           /\ file' = r[2]
           /\ last' = Op("updateConfig", r[3], GetConfig(r[1]) # GetConfig(config))
    /\ UNCHANGED <<env, phase, disk, gw>>

\* the check of setApiConfig that throws, "" when none does
SetApiConfigError(apiUrl, apiToken) ==
    IF FalsyStr(apiUrl) \/ ~StartsWith(apiUrl, StrHttp)
        THEN "Invalid API URL. Must start with http:// or https://"
    ELSE IF FalsyStr(apiToken) \/ Len(Trim(apiToken)) = 0
        THEN "API token is required"
    ELSE ""

SetApiConfig(apiUrl, apiToken) ==
    /\ phase = "running"
    /\ LET pre == SetApiConfigError(apiUrl, apiToken)
           r == UpdateResult(config, file,
                             [apiUrl |-> Trim(apiUrl), apiToken |-> Trim(apiToken)], disk)
       IN  IF pre # ""
           THEN /\ last' = Op("setApiConfig", pre, FALSE)
                /\ UNCHANGED <<config, file>>
           ELSE /\ config' = r[1]
                /\ file' = r[2]
                /\ last' = Op("setApiConfig", r[3], GetConfig(r[1]) # GetConfig(config))
    /\ UNCHANGED <<env, phase, disk, gw>>

\* resetConfig() that lays the defaults under the stored object
ResetConfigUnderStored ==
    /\ phase = "running"
    /\ config' = Spread(InitialDefaults(env), config)
    /\ file' = SavedFile(file, Spread(InitialDefaults(env), config), disk)
    /\ last' = Op("resetConfig", IF WriteFails(disk) THEN SaveError ELSE "", FALSE)
    /\ UNCHANGED <<env, phase, disk, gw>>

ResetConfig ==
    /\ phase = "running"
    /\ config' = InitialDefaults(env)
    /\ file' = SavedFile(file, InitialDefaults(env), disk)
    /\ last' = Op("resetConfig", IF WriteFails(disk) THEN SaveError ELSE "",
                   GetConfig(InitialDefaults(env)) # GetConfig(config))
    /\ UNCHANGED <<env, phase, disk, gw>>

-----------------------------------------------------------------------------
(* LLMService: operations *)

\* validateRequest(request)
ValidateRequest(req) ==
    /\ phase = "running"
    /\ gw.stage # "inflight"
    /\ gw' = [GwIdle EXCEPT !.op = "validateRequest", !.stage = "done", !.req = req,
                            !.validation = ValidateRequestResult(req)]
    /\ UNCHANGED storeVars

\* sendChatCompletion(request) without its check of the token
SendChatCompletionNoTokenCheck(req) ==
    /\ phase = "running"
    /\ gw.stage # "inflight"
    /\ LET cfg == GetConfig(config)
           started == [GwIdle EXCEPT !.op = "sendChatCompletion", !.req = req, !.cfg = cfg]
       IN  gw' = IF FalsyStr(cfg.apiUrl)
                 THEN [started EXCEPT !.stage = "done", !.ret = ConfigurationError("apiUrl")]
                 ELSE [started EXCEPT !.stage = "inflight", !.payload = Payload(req, cfg),
                                      !.timeout = RequestTimeoutOf(cfg), !.posts = 1]
    /\ UNCHANGED storeVars

\* sendChatCompletion(req) that checks the URL and not the token
ChatCallNoTokenCheck(op, req, cfg) ==
    LET started == [GwIdle EXCEPT !.op = op, !.req = req, !.cfg = cfg]
    IN  IF FalsyStr(cfg.apiUrl)
        THEN [started EXCEPT !.stage = "done", !.ret = ConfigurationError("apiUrl")]
        ELSE [started EXCEPT !.stage = "inflight", !.url = cfg.apiUrl,
                             !.authorization = StrBearer \o cfg.apiToken,
                             !.payload = Payload(req, cfg),
                             !.timeout = RequestTimeoutOf(cfg), !.posts = 1]

\* sendChatCompletion(req) up to its await, in a call entered at op: the
\* configuration check, the payload and the axios.post
ChatCall(op, req, cfg) ==
    LET started == [GwIdle EXCEPT !.op = op, !.req = req, !.cfg = cfg]
    IN  IF FalsyStr(cfg.apiUrl)
        THEN [started EXCEPT !.stage = "done", !.ret = ConfigurationError("apiUrl")]
        ELSE IF FalsyStr(cfg.apiToken)
        THEN [started EXCEPT !.stage = "done", !.ret = ConfigurationError("apiToken")]
        ELSE [started EXCEPT !.stage = "inflight", !.url = cfg.apiUrl,
                             !.authorization = StrBearer \o cfg.apiToken,
                             !.payload = Payload(req, cfg),
                             !.timeout = RequestTimeoutOf(cfg), !.posts = 1]

\* A message or a log line is the list of the parts of its template string: text
\* of the source (Lit), an interpolated program value (Val), an interpolated number
\* (Num), and text supplied by the upstream API, by axios or by the operating
\* system (Text).
Lit(s) == [k |-> "lit", s |-> s, v |-> EmptyStr, n |-> 0]
Val(v) == [k |-> "val", s |-> "", v |-> v, n |-> 0]
Num(n) == [k |-> "num", s |-> "", v |-> EmptyStr, n |-> n]
Text(s) == [k |-> "text", s |-> s, v |-> EmptyStr, n |-> 0]

\* error.message of what sendChatCompletion, sendCompletion or a store method throws
ErrorMessage(ret) ==
    CASE ret.kind = "ConfigurationError" /\ ret.field = "apiUrl" ->
            <<Lit("LLM API URL not configured")>>
      [] ret.kind = "ConfigurationError" /\ ret.field = "apiToken" ->
            <<Lit("LLM API token not configured")>>
      [] ret.kind = "UpstreamError" ->
            <<Lit("LLM API Error ("), Num(ret.status), Lit("): "), Text(ret.detail)>>
      [] ret.kind = "NetworkError" ->
            <<Lit("LLM API is not responding. Please check the API URL and network connection.")>>
      [] ret.kind = "RequestError" /\ ret.cause = "LLM API returned error" ->
            <<Lit("Request failed: "), Lit("LLM API returned error: "), Num(ret.status),
              Lit(" - "), Text(ret.detail)>>
      [] ret.kind = "RequestError" /\ ret.cause # "LLM API returned error" ->
            <<Lit("Request failed: "), Text(ret.cause)>>
      [] ret.kind = "NoResponseError" -> <<Lit("No response from LLM")>>
      [] OTHER -> << >>

\* error.message in the catch block of sendChatCompletion
CaughtMessage(g) ==
    LET o == g.response
    IN  CASE o.kind = "response" /\ ValidateStatus(o.status) ->
                <<Lit("LLM API returned error: "), Num(o.status), Lit(" - "),
                  Text(o.statusText)>>
          [] o.kind = "response" /\ ~ValidateStatus(o.status) ->
                <<Text("Request failed with status code "), Num(o.status)>>
          [] o.kind = "timeout" ->
                <<Text("timeout of "), Num(g.timeout), Text("ms exceeded")>>
          [] OTHER -> <<Text("error.message")>>

\* the first log line of sendChatCompletion with the headers of the request in it
SendingLineWithHeaders(g) ==
    <<Lit("Sending request to LLM: "), Val(g.url), Val(g.authorization)>>

\* the first log line of sendChatCompletion
SendingLine(g) == <<Lit("Sending request to LLM: "), Val(g.url)>>

\* the lines sendChatCompletion has written to the console in call g
GatewayLog(g) ==
    IF g.posts = 0 THEN << >>
    ELSE <<SendingLine(g)>>
         \o (IF g.stage # "done" THEN << >>
             ELSE IF g.ret.kind = "ok"
             THEN <<<<Lit("LLM response received ("), Text("usage.total_tokens"),
                      Lit(" tokens)")>>>>
             ELSE <<<<Lit("LLM API Error:")>> \o CaughtMessage(g)>>)

\* the lines the store operation l may have written to the console
StoreLog(l) ==
    (IF l.op = "construct"
     THEN {<<Lit("Configuration loaded successfully")>>,
           <<Lit("No configuration file found, using defaults")>>,
           <<Lit("Error loading configuration:"), Text("error")>>}
     ELSE {})
    \cup (IF l.err = SaveError
          THEN {<<Lit("Error saving configuration:"), Text("error")>>}
          ELSE IF l.err = "" /\ l.op # "none"
          THEN {<<Lit("Configuration saved successfully")>>}
          ELSE {})
    \cup (IF l.err = "" /\ l.op \in {"updateConfig", "setApiConfig"}
          THEN {<<Lit("Configuration updated successfully")>>} ELSE {})
    \cup (IF l.err = "" /\ l.op = "resetConfig"
          THEN {<<Lit("Configuration reset to defaults")>>} ELSE {})

Http(status, keys) == [status |-> status, keys |-> keys]

\* the catch block of the chat routes
HttpFailed == Http(500, {"error", "message", "timestamp"})

\* what the callers of sendChatCompletion do once it has returned or thrown:
\* sendCompletion, testConnection around it, and the route handlers around these
Finish(g) ==
    LET c == SendCompletionResult(g.ret, g.response.data)
        t == TestConnectionResult(c)
    IN  CASE g.op = "sendCompletion" -> [g EXCEPT !.completion = c]
          [] g.op = "testConnection" -> [g EXCEPT !.completion = c, !.result = t]
          [] g.op = "POST /completion" ->
                [g EXCEPT !.http = IF g.ret.kind = "ok"
                                   THEN Http(200, {"success", "data", "timestamp"})
                                   ELSE HttpFailed]
          [] g.op = "POST /simple" ->
                [g EXCEPT !.completion = c,
                          !.http = IF c.ret.kind = "ok"
                                   THEN Http(200, {"success", "response", "timestamp"})
                                   ELSE HttpFailed]
          [] g.op = "POST /test" ->
                [g EXCEPT !.completion = c, !.result = t,
                          !.http = IF t.success
                                   THEN Http(200, {"success", "message", "responseTime",
                                                   "timestamp"})
                                   ELSE Http(500, {"success", "message", "timestamp"})]
          [] OTHER -> g

\* a call entered at op that gives req to sendChatCompletion
Enter(op, req) ==
    LET g == ChatCall(op, req, GetConfig(config))
    IN  IF g.stage = "done" THEN Finish(g) ELSE g

\* sendChatCompletion(request)
SendChatCompletion(req) ==
    /\ phase = "running"
    /\ gw.stage # "inflight"
    /\ gw' = Enter("sendChatCompletion", req)
    /\ UNCHANGED storeVars

\* the request sendCompletion(prompt, maxTokens) builds; args holds the arguments given
CompletionRequest(args) ==
    Spread([model |-> EmptyStr, prompt |-> args.prompt],
           IF Has(args, "maxTokens") THEN One("max_tokens", args.maxTokens) ELSE EmptyObj)

\* sendCompletion(prompt, maxTokens)
SendCompletion(args) ==
    /\ phase = "running"
    /\ gw.stage # "inflight"
    /\ gw' = Enter("sendCompletion", CompletionRequest(args))
    /\ UNCHANGED storeVars

\* testConnection()
TestConnection ==
    /\ phase = "running"
    /\ gw.stage # "inflight"
    /\ gw' = Enter("testConnection",
                   CompletionRequest([prompt |-> StrTestPrompt, maxTokens |-> TestMaxTokens]))
    /\ UNCHANGED storeVars

\* POST /api/chat/completion that calls sendChatCompletion without validateRequest
PostCompletionUnvalidated(body) ==
    /\ phase = "running"
    /\ gw.stage # "inflight"
    /\ gw' = Enter("POST /completion", body)
    /\ UNCHANGED storeVars

\* POST /api/chat/completion with body as the request
PostCompletion(body) ==
    /\ phase = "running"
    /\ gw.stage # "inflight"
    /\ LET validation == ValidateRequestResult(body)
       IN  gw' = IF ~validation.valid
                 THEN [GwIdle EXCEPT !.op = "POST /completion", !.stage = "done",
                                     !.req = body, !.validation = validation,
                                     !.http = Http(400, {"error", "details"})]
                 ELSE [Enter("POST /completion", body) EXCEPT !.validation = validation]
    /\ UNCHANGED storeVars

\* POST /api/chat/simple with body {prompt, maxTokens}
PostSimple(body) ==
    /\ phase = "running"
    /\ gw.stage # "inflight"
    /\ gw' = IF FalsyStr(ReqStr(body, "prompt")) \/ Len(Trim(body.prompt)) = 0
             THEN [GwIdle EXCEPT !.op = "POST /simple", !.stage = "done", !.req = body,
                                 !.http = Http(400, {"error"})]
             ELSE Enter("POST /simple", CompletionRequest(body))
    /\ UNCHANGED storeVars

\* POST /api/chat/test
PostTest ==
    /\ phase = "running"
    /\ gw.stage # "inflight"
    /\ gw' = Enter("POST /test",
                   CompletionRequest([prompt |-> StrTestPrompt, maxTokens |-> TestMaxTokens]))
    /\ UNCHANGED storeVars

\* the axios.post ends with outcome o: sendChatCompletion returns or throws, and so
\* do its callers
NetRespondRetrying(o) ==
    /\ gw.stage = "inflight"
    /\ gw' = IF Classify(o).kind = "ok" \/ gw.posts > 1
             THEN Finish([gw EXCEPT !.stage = "done", !.response = o, !.ret = Classify(o)])
             ELSE [gw EXCEPT !.posts = gw.posts + 1]
    /\ UNCHANGED storeVars

NetRespond(o) ==
    /\ gw.stage = "inflight"
    /\ gw' = Finish([gw EXCEPT !.stage = "done", !.response = o, !.ret = Classify(o)])
    /\ UNCHANGED storeVars

\* the timer of the axios.post fires before a response has arrived
TimeoutFires ==
    /\ gw.stage = "inflight"
    /\ gw.timeout > 0
    /\ gw' = Finish([gw EXCEPT !.stage = "done", !.response = TimedOut,
                               !.ret = Classify(TimedOut)])
    /\ UNCHANGED storeVars

Next ==
    \/ Construct
    \/ \E p \in PartialInputs : UpdateConfig(p)
    \/ \E u \in UrlInputs, t \in TokenInputs : SetApiConfig(u, t)
    \/ ResetConfig

Spec == Init /\ [][Next]_vars

\* The gateway in use: the store starts with an empty environment, a working disk
\* and no config.json or one within the bounds, is constructed, and is reconfigured
\* while requests are made.
InitGateway ==
    /\ Init
    /\ env = EmptyObj
    /\ disk = "ok"
    /\ file \in {FileAbsent, PartialFile}

NextGateway ==
    \/ Construct
    \/ \E p \in GatewayPartials : UpdateConfig(p)
    \/ \E req \in ValidateInputs : ValidateRequest(req)
    \/ \E req \in RequestInputs : SendChatCompletion(req)
    \/ \E o \in NetOutcomes : NetRespond(o)

SpecGateway == InitGateway /\ [][NextGateway]_vars

\* getConfig(), getMaskedConfig() or getConfigStatus() called on the store. The
\* three build a new object from this.config and assign nothing; what they return
\* is GetConfig(config), GetMaskedConfig(config), GetConfigStatus(config) of the
\* state they are called in, and only the status is kept with the call.
Read(op) ==
    /\ phase = "running"
    /\ gw.stage # "inflight"
    /\ gw' = [GwIdle EXCEPT !.op = op, !.stage = "done",
                            !.status = IF op = "getConfigStatus"
                                       THEN GetConfigStatus(config) ELSE NoStatus]
    /\ UNCHANGED storeVars

Readers == {"getConfig", "getMaskedConfig", "getConfigStatus"}

\* The store written and read on a disk that takes every write: every update,
\* setApiConfig and reset, the three readers and validateRequest in any order.
InitWrites ==
    /\ Init
    /\ env \in {e \in Envs : ValidateConfig(InitialDefaults(e)) = ""}
    /\ file \in {FileAbsent, PartialFile}
    /\ disk = "ok"

NextWrites ==
    \/ Construct
    \/ \E p \in WritePartials : UpdateConfig(p)
    \/ \E u \in WriteUrls, t \in WriteTokens : SetApiConfig(u, t)
    \/ ResetConfig
    \/ \E op \in Readers : Read(op)
    \/ \E req \in WriteRequests : ValidateRequest(req)

SpecWrites == InitWrites /\ [][NextWrites]_vars

\* setApiConfig(apiUrl, apiToken) on the stored object c and file f:
\* <<config', file', error>>
SetApiConfigResult(c, f, apiUrl, apiToken, d) ==
    LET pre == SetApiConfigError(apiUrl, apiToken)
    IN  IF pre # "" THEN <<c, f, pre>>
        ELSE UpdateResult(c, f, [apiUrl |-> Trim(apiUrl), apiToken |-> Trim(apiToken)], d)

\* a route of configRouter has answered body with http; view is the masked
\* configuration and status the status its answer holds
Answered(op, body, http, view, status) ==
    [GwIdle EXCEPT !.op = op, !.stage = "done", !.req = body, !.http = http,
                   !.view = view, !.status = status]

\* GET /api/config
GetConfigRoute ==
    /\ phase = "running"
    /\ gw.stage # "inflight"
    /\ gw' = Answered("GET /config", EmptyObj,
                      Http(200, {"success", "config", "status", "timestamp"}),
                      GetMaskedConfig(config), GetConfigStatus(config))
    /\ UNCHANGED storeVars

\* the test of POST /api/config on apiUrl and apiToken that answers 400
HalfApiConfig(body) ==
    /\ Has(body, "apiUrl") \/ Has(body, "apiToken")
    /\ FalsyStr(ReqStr(body, "apiUrl")) \/ FalsyStr(ReqStr(body, "apiToken"))

\* POST /api/config that gives every body to updateConfig
PostConfigUnchecked(body) ==
    /\ phase = "running"
    /\ gw.stage # "inflight"
    /\ LET r == UpdateResult(config, file, body, disk)
       IN  /\ config' = r[1]
           /\ file' = r[2]
           /\ last' = Op("updateConfig", r[3], GetConfig(r[1]) # GetConfig(config))
           /\ gw' = IF r[3] = ""
                    THEN Answered("POST /config", body,
                                  Http(200, {"success", "message", "config", "timestamp"}),
                                  GetMaskedConfig(r[1]), NoStatus)
                    ELSE Answered("POST /config", body,
                                  Http(400, {"error", "message", "timestamp"}),
                                  EmptyObj, NoStatus)
    /\ UNCHANGED <<env, phase, disk>>

\* POST /api/config with body as the new configuration
PostConfig(body) ==
    /\ phase = "running"
    /\ gw.stage # "inflight"
    /\ IF HalfApiConfig(body)
       THEN /\ gw' = Answered("POST /config", body, Http(400, {"error"}), EmptyObj, NoStatus)
            /\ UNCHANGED <<config, file, last>>
       ELSE LET r == UpdateResult(config, file, body, disk)
            IN  /\ config' = r[1]
                /\ file' = r[2]
                /\ last' = Op("updateConfig", r[3], GetConfig(r[1]) # GetConfig(config))
                /\ gw' = IF r[3] = ""
                         THEN Answered("POST /config", body,
                                       Http(200, {"success", "message", "config",
                                                  "timestamp"}),
                                       GetMaskedConfig(r[1]), NoStatus)
                         ELSE Answered("POST /config", body,
                                       Http(400, {"error", "message", "timestamp"}),
                                       EmptyObj, NoStatus)
    /\ UNCHANGED <<env, phase, disk>>

\* POST /api/config/api with body {apiUrl, apiToken}
PostConfigApi(body) ==
    /\ phase = "running"
    /\ gw.stage # "inflight"
    /\ IF FalsyStr(ReqStr(body, "apiUrl")) \/ FalsyStr(ReqStr(body, "apiToken"))
       THEN /\ gw' = Answered("POST /config/api", body, Http(400, {"error"}),
                              EmptyObj, NoStatus)
            /\ UNCHANGED <<config, file, last>>
       ELSE LET r == SetApiConfigResult(config, file, body.apiUrl, body.apiToken, disk)
            IN  /\ config' = r[1]
                /\ file' = r[2]
                /\ last' = Op("setApiConfig", r[3], GetConfig(r[1]) # GetConfig(config))
                /\ gw' = Answered("POST /config/api", body,
                                  IF r[3] = ""
                                  THEN Http(200, {"success", "message", "timestamp"})
                                  ELSE Http(400, {"error", "message", "timestamp"}),
                                  EmptyObj, NoStatus)
    /\ UNCHANGED <<env, phase, disk>>

\* GET /api/config/status
GetStatusRoute ==
    /\ phase = "running"
    /\ gw.stage # "inflight"
    /\ gw' = Answered("GET /config/status", EmptyObj,
                      Http(200, {"success", "configured", "missingFields", "timestamp"}),
                      EmptyObj, GetConfigStatus(config))
    /\ UNCHANGED storeVars

\* POST /api/config/reset
PostReset ==
    /\ phase = "running"
    /\ gw.stage # "inflight"
    /\ config' = InitialDefaults(env)
    /\ file' = SavedFile(file, InitialDefaults(env), disk)
    /\ last' = Op("resetConfig", IF WriteFails(disk) THEN SaveError ELSE "",
                   GetConfig(InitialDefaults(env)) # GetConfig(config))
    /\ gw' = IF WriteFails(disk)
             THEN Answered("POST /config/reset", EmptyObj,
                           Http(500, {"error", "message", "timestamp"}), EmptyObj, NoStatus)
             ELSE Answered("POST /config/reset", EmptyObj,
                           Http(200, {"success", "message", "config", "timestamp"}),
                           GetMaskedConfig(InitialDefaults(env)), NoStatus)
    /\ UNCHANGED <<env, phase, disk>>

\* The store behind its routes: no token in the environment or in config.json
\* when the process starts, any disk, and the five routes of configRouter in any
\* order.
InitConfigRoutes ==
    /\ Init
    /\ env = EmptyObj
    /\ file \in {FileAbsent, PartialFile}

NextConfigRoutes ==
    \/ Construct
    \/ GetConfigRoute
    \/ \E body \in ConfigBodies : PostConfig(body)
    \/ \E body \in ApiBodies : PostConfigApi(body)
    \/ GetStatusRoute
    \/ PostReset

SpecConfigRoutes == InitConfigRoutes /\ [][NextConfigRoutes]_vars

\* The service in use by its callers: sendChatCompletion, sendCompletion and
\* testConnection called directly and through the chat routes, over responses with
\* and without choices, while the store is reconfigured.
NextCalls ==
    \/ Construct
    \/ \E p \in CallPartials : UpdateConfig(p)
    \/ ResetConfig
    \/ \E req \in CallRequests : SendChatCompletion(req)
    \/ \E args \in CompletionInputs : SendCompletion(args)
    \/ TestConnection
    \/ \E body \in CompletionBodies : PostCompletion(body)
    \/ \E body \in SimpleBodies : PostSimple(body)
    \/ PostTest
    \/ \E o \in CallOutcomes : NetRespond(o)
    \/ TimeoutFires

SpecCalls == InitGateway /\ [][NextCalls]_vars

\* the timer armed by the timeout option of axios.post fires unless the call has
\* ended before
SpecCallsLive == SpecCalls /\ WF_vars(TimeoutFires)

-----------------------------------------------------------------------------
(* The data model's bounds, as the specification states them *)

SchemePrefixed(u) == StartsWith(u, StrHttpScheme) \/ StartsWith(u, StrHttpsScheme)

InRange(v, lo, hi) == v \in lo..hi

\* every field present in object o is within its bound
WithinBounds(o) ==
    /\ Has(o, "apiUrl") => (o.apiUrl = EmptyStr \/ SchemePrefixed(o.apiUrl))
    /\ Has(o, "maxTokens") => InRange(o.maxTokens, MinMaxTokens, MaxMaxTokens)
    /\ Has(o, "temperature") => InRange(o.temperature, MinTemperature, MaxTemperature)
    /\ Has(o, "requestTimeout") => InRange(o.requestTimeout, MinRequestTimeout, MaxRequestTimeout)

-----------------------------------------------------------------------------
(* Claims *)

\* C1: every updateConfig whose partial violates at least one bound (URL scheme,
\* maxTokens 1-4000, temperature 0-2, requestTimeout 1000-120000) fails, and
\* getConfig() after the call equals getConfig() before it, also when the partial
\* carries valid fields too.
C1_RejectedUpdateIsAtomic ==
    [][\A p \in PartialInputs :
          (UpdateConfig(p) /\ ~WithinBounds(p))
              => (last'.err # "" /\ GetConfig(config') = GetConfig(config))]_vars

\* C2: once the store is constructed, the persisted configuration satisfies every
\* bound of the data model, whatever the file and the environment held at start.
C2_PersistedWithinBounds ==
    (phase = "running" /\ file.kind = "json") => WithinBounds(file.data)

\* C3: an upstream response with status >= 400 makes sendChatCompletion fail with an
\* UpstreamError that carries the status code and the message extracted from the
\* response body, never with a RequestError or a NetworkError.
C3_ErrorStatusIsUpstreamError ==
    (gw.op = "sendChatCompletion" /\ gw.stage = "done"
        /\ gw.response.kind = "response" /\ gw.response.status >= ErrorStatus)
    => (/\ gw.ret.kind = "UpstreamError"
        /\ gw.ret.status = gw.response.status
        /\ gw.response.bodyMessage # "" => gw.ret.detail = gw.response.bodyMessage)

InSeq(x, sq) == \E i \in 1..Len(sq) : sq[i] = x

\* the request has a prompt that is not blank and not longer than 10000 characters
PromptWithinRules(r) ==
    /\ Has(r, "prompt")
    /\ Trim(r.prompt) # EmptyStr
    /\ Len(r.prompt) <= MaxPromptLength

\* C4: for a request with a valid prompt, validateRequest returns valid=false with
\* the matching message for every present maxTokens outside [1,4000] (0 and negative
\* values too) and every present temperature outside [0,2], and valid=true when the
\* present values are within the bounds.
C4_ValidateRequestBounds ==
    (gw.op = "validateRequest" /\ PromptWithinRules(gw.req)) =>
        LET r == gw.req
            tokensOut == Has(r, "max_tokens") /\ ~InRange(r.max_tokens, MinMaxTokens, MaxMaxTokens)
            tempOut == Has(r, "temperature")
                       /\ ~InRange(r.temperature, MinTemperature, MaxTemperature)
        IN  /\ tokensOut => (~gw.validation.valid
                             /\ InSeq("max_tokens must be between 1 and 4000", gw.validation.errors))
            /\ tempOut => (~gw.validation.valid
                           /\ InSeq("temperature must be between 0 and 2", gw.validation.errors))
            /\ (~tokensOut /\ ~tempOut) => gw.validation.valid

\* C5: a sendChatCompletion made while the stored apiUrl or apiToken is empty fails
\* with a ConfigurationError naming a missing field, and posts nothing.
C5_MissingConfigFailsFast ==
    [][\A req \in RequestInputs :
          (SendChatCompletion(req)
              /\ (GetConfig(config).apiUrl = EmptyStr \/ GetConfig(config).apiToken = EmptyStr))
          => (/\ gw'.stage = "done"
              /\ gw'.ret.kind = "ConfigurationError"
              /\ gw'.ret.field \in {f \in {"apiUrl", "apiToken"} : GetConfig(config)[f] = EmptyStr}
              /\ gw'.posts = 0
              /\ gw'.payload = EmptyObj)]_vars

C5_Witness ==
    /\ gw.op = "sendChatCompletion"
    /\ gw.stage = "done"
    /\ gw.cfg.apiUrl # EmptyStr
    /\ gw.cfg.apiToken = EmptyStr
    /\ gw.ret = ConfigurationError("apiToken")
    /\ gw.posts = 0

\* C6: in the payload, model, max_tokens and temperature each equal the request's
\* value when the request carries the field (a temperature of 0 too), and the value
\* of getConfig() only when the request omits it (or gives an empty model).
C6_RequestFieldsWin ==
    (gw.op = "sendChatCompletion" /\ gw.posts = 1) =>
        /\ gw.payload.model =
              IF Has(gw.req, "model") /\ gw.req.model # EmptyStr
              THEN gw.req.model ELSE gw.cfg.defaultModel
        /\ gw.payload.max_tokens =
              IF Has(gw.req, "max_tokens") THEN gw.req.max_tokens ELSE gw.cfg.maxTokens
        /\ gw.payload.temperature =
              IF Has(gw.req, "temperature") THEN gw.req.temperature ELSE gw.cfg.temperature

RawToken == GetConfig(config).apiToken
MaskedToken == GetMaskedConfig(config).apiToken

\* C7: for every stored token, the empty one too, the masked authToken never equals
\* the raw token and never contains more than 10 characters of it.
C7_MaskDiffersFromRaw ==
    phase = "running" =>
        /\ MaskedToken # RawToken
        /\ \A i \in 1..Len(RawToken) : \A j \in i..Len(RawToken) :
              (j - i + 1 > MaskPrefixLength) => ~Includes(MaskedToken, SubSeq(RawToken, i, j))

TokLongOther == <<"a", "b", "c", "d", "e", "f", "g", "h", "i", "j", "x", "y", "z">>
Tokens == TokenInputs \cup {TokLong, TokLongOther}

\* C8: for every non-empty stored token, of any length, the masked authToken does
\* not contain the complete raw token, and every other token with the same visible
\* prefix has the same masked view.
C8_MaskHidesRaw ==
    (phase = "running" /\ RawToken # EmptyStr) =>
        /\ ~Includes(MaskedToken, RawToken)
        /\ \A t \in Tokens :
              (t # EmptyStr
                  /\ Substring0(t, MaskPrefixLength) = Substring0(RawToken, MaskPrefixLength))
              => GetMaskedConfig(Spread(config, One("apiToken", t))).apiToken = MaskedToken

\* C9: in every store state, getConfigStatus().configured is true iff apiUrl and
\* apiToken are both non-empty, and missingFields lists exactly the empty ones of
\* the two, once each, apiUrl before apiToken.
C9_StatusMatchesConfig ==
    LET g == GetConfig(config)
        st == GetConfigStatus(config)
        IsMissing(f) == g[f] = EmptyStr
    IN  /\ st.configured <=> (g.apiUrl # EmptyStr /\ g.apiToken # EmptyStr)
        /\ st.missingFields = SelectSeq(<<"apiUrl", "apiToken">>, IsMissing)

C9_Witness ==
    /\ phase = "running"
    /\ last.op = "updateConfig"
    /\ GetConfig(config).apiUrl # EmptyStr
    /\ GetConfig(config).apiToken = EmptyStr
    /\ GetConfigStatus(config) = [configured |-> FALSE, missingFields |-> <<"apiToken">>]

\* C10, as stated: after resetConfig(), getConfig() yields the documented default
\* value of every field.
C10_ResetYieldsDocumentedDefaults ==
    last.op = "resetConfig" => GetConfig(config) = DefaultConfig

EnvName(f) ==
    CASE f = "apiUrl" -> "LLM_API_URL"
      [] f = "apiToken" -> "LLM_API_TOKEN"
      [] f = "defaultModel" -> "LLM_DEFAULT_MODEL"
      [] f = "maxTokens" -> "LLM_MAX_TOKENS"
      [] f = "temperature" -> "LLM_TEMPERATURE"
      [] f = "requestTimeout" -> "LLM_REQUEST_TIMEOUT"
      [] f = "enableLogging" -> "LLM_ENABLE_LOGGING"

\* C10, amended: after resetConfig(), getConfig() yields for every field the
\* environment-derived default: the documented default when the field's LLM_*
\* variable is unset or empty, the value read from that variable when it is set;
\* nothing stored before the reset survives it.
C10_ResetYieldsEnvironmentDefaults ==
    last.op = "resetConfig" =>
        \A f \in Fields :
            /\ GetConfig(config)[f] = InitialDefaults(env)[f]
            /\ (EnvName(f) \notin DOMAIN env \/ env[EnvName(f)] = EmptyStr)
                  => GetConfig(config)[f] = DefaultConfig[f]

C10_Witness ==
    /\ last.op = "resetConfig"
    /\ last.changed
    /\ "LLM_MAX_TOKENS" \in DOMAIN env
    /\ "LLM_DEFAULT_MODEL" \notin DOMAIN env
    /\ GetConfig(config).maxTokens # DefaultMaxTokens
    /\ GetConfig(config).defaultModel = StrDefaultModel

\* C11: in every store state, also one loaded from a config.json that holds only
\* some of the fields, getConfig() returns an object with all seven fields: a field
\* the stored object holds keeps its stored value, a field it lacks has the
\* documented default.
C11_GetConfigFillsDefaults ==
    LET g == GetConfig(config)
    IN  /\ DOMAIN g = Fields
        /\ \A f \in Fields :
              g[f] = IF Has(config, f) THEN config[f] ELSE DefaultConfig[f]

C11_Witness ==
    /\ phase = "running"
    /\ last.op = "construct"
    /\ file = PartialFile
    /\ ~Has(config, "maxTokens")
    /\ ~Has(config, "apiToken")
    /\ GetConfig(config).maxTokens = DefaultMaxTokens
    /\ GetConfig(config).apiToken = EmptyStr
    /\ GetConfig(config).temperature = MinTemperature
    /\ GetConfig(config).defaultModel = ModelM

\* C12: constructing the store over a config.json that exists but cannot be parsed
\* raises nothing: the store runs with the environment-derived defaults and has
\* written them to config.json.
C12_CorruptFileNeverStopsConstruct ==
    [][(Construct /\ file = FileCorrupt)
          => (/\ phase' = "running"
              /\ last'.err = ""
              /\ config' = InitialDefaults(env)
              /\ file' = FileJson(Stringify(InitialDefaults(env))))]_vars

ValidationErrors ==
    {"API URL must start with http:// or https://",
     "maxTokens must be between 1 and 4000",
     "temperature must be between 0 and 2",
     "requestTimeout must be between 1000ms and 120000ms",
     "Invalid API URL. Must start with http:// or https://",
     "API token is required"}

\* C13: setApiConfig(url, token) fails with a validation error and leaves the stored
\* configuration and config.json as they were when url is empty or does not start
\* with http:// or https://, or token is empty once trimmed; in every other case the
\* stored apiUrl and apiToken are the trimmed url and the trimmed token.
C13_SetApiConfigValidates ==
    [][\A u \in UrlInputs, t \in TokenInputs :
          SetApiConfig(u, t)
          => IF u = EmptyStr \/ ~SchemePrefixed(u) \/ Trim(t) = EmptyStr
             THEN /\ last'.err \in ValidationErrors
                  /\ config' = config
                  /\ file' = file
             ELSE /\ last'.err \notin ValidationErrors
                  /\ GetConfig(config').apiUrl = Trim(u)
                  /\ GetConfig(config').apiToken = Trim(t)]_vars

\* C14: updateConfig and setApiConfig reject every non-empty apiUrl that does not
\* start with exactly "http://" or "https://", one that merely begins with the
\* letters "http" too: the call ends with a validation error and the stored
\* configuration is left as it was.
C14_UrlSchemeIsExact ==
    [][/\ \A p \in PartialInputs :
             (UpdateConfig(p) /\ Has(p, "apiUrl") /\ p.apiUrl # EmptyStr
                 /\ ~SchemePrefixed(p.apiUrl))
             => (last'.err \in ValidationErrors /\ config' = config)
       /\ \A u \in UrlInputs, t \in TokenInputs :
             (SetApiConfig(u, t) /\ u # EmptyStr /\ ~SchemePrefixed(u))
             => (last'.err \in ValidationErrors /\ config' = config)]_vars

\* how many times message m is in the list
Occurrences(m, sq) == Cardinality({i \in 1..Len(sq) : sq[i] = m})

\* C15: for every request, the errors of validateRequest hold exactly one message
\* for each rule the request violates (prompt absent or blank; prompt longer than
\* 10000 characters; max_tokens present and outside 1..4000; temperature present and
\* outside 0..2), none for a rule that holds, and valid is true exactly when the
\* list is empty.
C15_ValidateRequestCollectsAll ==
    gw.op = "validateRequest" =>
        LET r == gw.req
            errors == gw.validation.errors
            Count(violated) == IF violated THEN 1 ELSE 0
            blank == ~Has(r, "prompt") \/ Trim(r.prompt) = EmptyStr
            tooLong == Has(r, "prompt") /\ Len(r.prompt) > MaxPromptLength
            tokensOut == Has(r, "max_tokens")
                         /\ ~InRange(r.max_tokens, MinMaxTokens, MaxMaxTokens)
            tempOut == Has(r, "temperature")
                       /\ ~InRange(r.temperature, MinTemperature, MaxTemperature)
        IN  /\ Occurrences("Prompt is required and cannot be empty", errors) = Count(blank)
            /\ Occurrences("Prompt is too long (maximum 10,000 characters)", errors)
                   = Count(tooLong)
            /\ Occurrences("max_tokens must be between 1 and 4000", errors) = Count(tokensOut)
            /\ Occurrences("temperature must be between 0 and 2", errors) = Count(tempOut)
            /\ Len(errors) = Count(blank) + Count(tooLong) + Count(tokensOut) + Count(tempOut)
            /\ gw.validation.valid <=> (errors = << >>)

\* C16: every outbound call issued by sendChatCompletion ends: it is made with the
\* configured requestTimeout as its timeout, a call that got no response within it,
\* or no response at all, ends with a NetworkError, and no call stays pending.
C16_OutboundCallCompletes ==
    /\ [](gw.stage = "inflight" => (gw.posts = 1 /\ gw.timeout = gw.cfg.requestTimeout))
    /\ []((gw.stage = "done" /\ gw.response.kind \in {"timeout", "noResponse"})
            => gw.ret = NetworkError)
    /\ (gw.stage = "inflight") ~> (gw.stage = "done")

C16_Witness ==
    /\ gw.op = "sendChatCompletion"
    /\ gw.stage = "done"
    /\ gw.posts = 1
    /\ gw.timeout = MaxRequestTimeout
    /\ gw.response = TimedOut
    /\ gw.ret = NetworkError

\* the result sendChatCompletion returned holds at least one choice
HasChoices(data) == Has(data, "choices") /\ Len(data.choices) > 0

\* C17, as stated: on a result of sendChatCompletion, sendCompletion returns the
\* direct text of the first choice when that field is present and the message
\* content of the first choice otherwise, and fails with a NoResponseError exactly
\* when the result has no choices (none or an empty list).
C17_FirstChoiceTextWhenPresent ==
    (gw.op = "sendCompletion" /\ gw.stage = "done" /\ gw.ret.kind = "ok") =>
        LET data == gw.response.data
            first == data.choices[1]
        IN  /\ (gw.completion.ret = NoResponseError) <=> ~HasChoices(data)
            /\ HasChoices(data) =>
                  /\ gw.completion.ret = Returned
                  /\ Has(first, "text") => gw.completion.text = first.text
                  /\ (~Has(first, "text") /\ Has(first, "content"))
                        => gw.completion.text = first.content

\* field f of the choice when it is present and not empty
NonEmptyField(choice, f) == Has(choice, f) /\ choice[f] # EmptyStr

\* C17, amended: on a result of sendChatCompletion, sendCompletion returns, from the
\* first choice alone, the direct text when it is present and not empty, else the
\* message content when it is present and not empty, else the empty string; it
\* fails with a NoResponseError exactly when the result has no choices.
C17_FirstChoiceTextWhenNonEmpty ==
    (gw.op = "sendCompletion" /\ gw.stage = "done" /\ gw.ret.kind = "ok") =>
        LET data == gw.response.data
            first == data.choices[1]
        IN  /\ (gw.completion.ret = NoResponseError) <=> ~HasChoices(data)
            /\ HasChoices(data) =>
                  /\ gw.completion.ret = Returned
                  /\ gw.completion.text =
                        IF NonEmptyField(first, "text") THEN first.text
                        ELSE IF NonEmptyField(first, "content") THEN first.content
                        ELSE EmptyStr

C17_Witness ==
    /\ gw.op = "sendCompletion"
    /\ gw.stage = "done"
    /\ gw.response = ResponseWith(<<[text |-> EmptyStr, content |-> TextYo]>>)
    /\ gw.completion = [ret |-> Returned, text |-> TextYo]

\* C18: testConnection always returns a result object: with success = true and the
\* elapsed time exactly when sendCompletion returned a text, and with success =
\* false and a message made of the failure's message for every failure (missing
\* configuration, error status, no response or timeout, result without choices).
C18_TestConnectionNeverRaises ==
    (gw.op = "testConnection" /\ gw.stage = "done") =>
        LET failure == IF gw.ret.kind # "ok" THEN gw.ret
                       ELSE IF ~HasChoices(gw.response.data) THEN NoResponseError
                       ELSE NoReturn
        IN  /\ gw.result.returned
            /\ gw.result.success <=> (failure = NoReturn)
            /\ gw.result.success <=> gw.result.responseTime
            /\ gw.result.success => gw.completion.ret = Returned
            /\ ~gw.result.success =>
                  /\ gw.result.message = "Connection failed: <failure>"
                  /\ gw.result.failure = failure

C18_Witness ==
    /\ gw.op = "testConnection"
    /\ gw.stage = "done"
    /\ gw.response = TimedOut
    /\ gw.result.returned
    /\ ~gw.result.success
    /\ gw.result.failure = NetworkError

\* the request breaks a rule of validateRequest, as the rules are stated
BreaksARule(r) ==
    \/ ~PromptWithinRules(r)
    \/ Has(r, "max_tokens") /\ ~InRange(r.max_tokens, MinMaxTokens, MaxMaxTokens)
    \/ Has(r, "temperature") /\ ~InRange(r.temperature, MinTemperature, MaxTemperature)

\* C19: through POST /api/chat/completion and POST /api/chat/simple, no outbound
\* call is issued for a request that breaks a validation rule (blank prompt, prompt
\* longer than 10000 characters, max_tokens outside 1..4000, temperature outside 0..2).
C19_MalformedNeverReachesNetwork ==
    (gw.op \in {"POST /completion", "POST /simple"} /\ BreaksARule(gw.req))
        => gw.posts = 0

\* C20: a call of sendChatCompletion, alone or under sendCompletion and
\* testConnection, issues at most one outbound POST: a call that has ended has
\* issued one when it got an outcome from the network, whatever the outcome, and
\* none otherwise.
C20_NoAutomaticRetry ==
    /\ gw.posts <= 1
    /\ gw.stage = "done" => (gw.posts = IF gw.response = NoOutcome THEN 0 ELSE 1)

C20_Witness ==
    /\ gw.op = "testConnection"
    /\ gw.stage = "done"
    /\ gw.response = Response(503, "Service Unavailable", "")
    /\ gw.ret.kind = "UpstreamError"
    /\ gw.posts = 1

\* C22: a sendChatCompletion call takes the URL, the bearer token, the model,
\* max_tokens, temperature and the timeout of its request from the one
\* configuration getConfig() returns when the call is made; an updateConfig or
\* resetConfig that runs while the call is in flight changes none of them; and the
\* stored configuration only ever changes by one complete write, so that the
\* configuration read is entirely the one before or the one after a write.
C22_CallUsesOneConfiguration ==
    [][/\ (gw'.stage = "inflight" /\ gw.stage # "inflight") =>
             LET c == GetConfig(config)
             IN  /\ gw'.cfg = c
                 /\ gw'.url = c.apiUrl
                 /\ gw'.authorization = StrBearer \o c.apiToken
                 /\ gw'.payload = Payload(gw'.req, c)
                 /\ gw'.timeout = c.requestTimeout
       /\ (gw.stage = "inflight" /\ gw'.stage = "inflight") => gw' = gw
       /\ (phase = "running" /\ config' # config) =>
             \/ config' = InitialDefaults(env)
             \/ \E p \in CallPartials : config' = Spread(config, p)]_vars

C22_Witness ==
    /\ gw.op = "sendChatCompletion"
    /\ gw.stage = "inflight"
    /\ last.op = "updateConfig"
    /\ last.changed
    /\ gw.authorization = StrBearer \o TokShort
    /\ gw.timeout = DefaultRequestTimeout
    /\ GetConfig(config).apiToken = EmptyStr
    /\ GetConfig(config).requestTimeout = MaxRequestTimeout

\* token t is in an interpolated value of the message or log line
TokenAppears(t, line) ==
    \E i \in 1..Len(line) : line[i].k = "val" /\ Includes(line[i].v, t)

\* the non-empty tokens the store holds or the current call was made with
TokensHeld ==
    ({GetConfig(config).apiToken}
        \cup (IF Has(gw.cfg, "apiToken") THEN {gw.cfg.apiToken} ELSE {}))
    \ {EmptyStr}

\* C21: the stored token is in no error message raised and in no log line written
\* by the store or the gateway, whatever the operations made and the outcome of the
\* outbound call (the text the upstream API sends back taken as given).
C21_TokenNeverInMessages ==
    \A t \in TokensHeld :
        /\ \A i \in 1..Len(GatewayLog(gw)) : ~TokenAppears(t, GatewayLog(gw)[i])
        /\ \A line \in StoreLog(last) : ~TokenAppears(t, line)
        /\ ~TokenAppears(t, ErrorMessage(gw.ret))
        /\ ~TokenAppears(t, ErrorMessage(gw.completion.ret))
        /\ ~TokenAppears(t, <<Lit(last.err)>>)

C21_Witness ==
    /\ gw.op = "sendChatCompletion"
    /\ gw.stage = "done"
    /\ gw.authorization = StrBearer \o TokShort
    /\ gw.ret = UpstreamError(500, "upstream failure")
    /\ Len(GatewayLog(gw)) = 2
    /\ TokenAppears(UrlHttpA, GatewayLog(gw)[1])
    /\ GetConfig(config).apiToken = TokShort

-----------------------------------------------------------------------------
(* C23: two writes requested at the same time are two handlers, each of which runs
   to its end before the other starts (no handler awaits between reading
   this.config and fs.writeFileSync). So every step that changes the stored or the
   persisted configuration is one whole updateConfig, setApiConfig or resetConfig
   applied to the state the step before it left, and it leaves config.json equal
   to the serialisation of the stored object: two writes end in the state of one
   of their two serial orders, never in a mix of both. *)
C23_WritesSerialize ==
    [][(phase = "running" /\ <<config, file>>' # <<config, file>>) =>
          /\ file' = FileJson(Stringify(config'))
          /\ \/ /\ last'.op = "resetConfig"
                /\ config' = InitialDefaults(env)
             \/ /\ last'.op = "updateConfig"
                /\ \E p \in WritePartials :
                      ValidateConfig(p) = "" /\ config' = Spread(config, p)
             \/ /\ last'.op = "setApiConfig"
                /\ \E u \in WriteUrls, t \in WriteTokens :
                      /\ SetApiConfigError(u, t) = ""
                      /\ config' = Spread(config, [apiUrl |-> Trim(u),
                                                   apiToken |-> Trim(t)])]_vars

\* a setApiConfig applied on top of an earlier updateConfig: both are in the
\* stored object and in the file
C23_Witness ==
    /\ phase = "running"
    /\ last = Op("setApiConfig", "", TRUE)
    /\ Has(config, "apiUrl") /\ config.apiUrl = UrlHttpx
    /\ Has(config, "maxTokens") /\ config.maxTokens = MinMaxTokens
    /\ file = FileJson(Stringify(config))

-----------------------------------------------------------------------------
(* C24: every response a route sends carries a timestamp field, whatever the
   route and whether it reports success, a 400 rejection or a 500 failure. *)
C24_EveryResponseHasTimestamp ==
    gw.http # NoHttp => "timestamp" \in gw.http.keys

-----------------------------------------------------------------------------
(* C25: POST /api/chat/completion answers 400 exactly when validateRequest rejects
   the body, and then sendChatCompletion is not called (no configuration is read,
   nothing is posted, nothing is returned or thrown); once the call has ended, a
   failure of any other kind is answered 500 with a message, and a result is
   answered 200 with success and data. *)
C25_CompletionRouteAnswers ==
    gw.op = "POST /completion" =>
        /\ gw.http.status = 400 <=> ~ValidateRequestResult(gw.req).valid
        /\ gw.http.status = 400 =>
              /\ gw.stage = "done"
              /\ gw.posts = 0 /\ gw.cfg = EmptyObj /\ gw.ret = NoReturn
        /\ gw.http.status # 400 =>
              /\ gw.stage = "inflight" => gw.http = NoHttp
              /\ (gw.stage = "done" /\ gw.ret.kind = "ok") =>
                    gw.http = Http(200, {"success", "data", "timestamp"})
              /\ (gw.stage = "done" /\ gw.ret.kind # "ok") =>
                    /\ gw.ret.kind \in {"ConfigurationError", "UpstreamError",
                                         "NetworkError", "RequestError"}
                    /\ gw.http.status = 500
                    /\ {"error", "message"} \subseteq gw.http.keys

\* a body rejected with 400 while the store is configured: the call would have
\* been posted had it been made
C25_Witness ==
    /\ gw.op = "POST /completion"
    /\ gw.stage = "done"
    /\ gw.http.status = 400
    /\ Len(gw.validation.errors) > 0
    /\ GetConfigStatus(config).configured

-----------------------------------------------------------------------------
(* C26: after every completed updateConfig, setApiConfig or resetConfig, failed or
   not, what getConfig() returns agrees with config.json; when the write of the
   file failed, the call reports the failure and getConfig() returns what it
   returned before the call. *)
C26_MemoryAgreesWithFile ==
    (phase = "running" /\ last.op \in {"updateConfig", "setApiConfig", "resetConfig"}) =>
        /\ file.kind = "json" /\ GetConfig(file.data) = GetConfig(config)
        /\ last.err = SaveError => ~last.changed

-----------------------------------------------------------------------------
(* C27: a successful updateConfig(partial) sets every field of partial to the
   value given and leaves every other stored field as it was, present or absent;
   a successful setApiConfig leaves every field but apiUrl and apiToken as it was;
   getConfig, getMaskedConfig, getConfigStatus and validateRequest leave the
   stored object and config.json as they were. *)
FrameOutside(fs) ==
    \A f \in Fields \ fs :
        /\ Has(config', f) <=> Has(config, f)
        /\ Has(config, f) => config'[f] = config[f]

C27_WritesChangeOnlyTheirFields ==
    [][/\ \A p \in WritePartials :
             (last'.op = "updateConfig" /\ last'.err = "" /\ UpdateConfig(p)) =>
                 /\ FrameOutside(DOMAIN p)
                 /\ \A f \in DOMAIN p : Has(config', f) /\ config'[f] = p[f]
       /\ \A u \in WriteUrls, t \in WriteTokens :
             (last'.op = "setApiConfig" /\ last'.err = "" /\ SetApiConfig(u, t)) =>
                 FrameOutside({"apiUrl", "apiToken"})
       /\ ((\E op \in Readers : Read(op)) \/ (\E req \in WriteRequests : ValidateRequest(req)))
             => UNCHANGED <<config, file>>]_vars

\* an updateConfig of maxTokens alone on a store that holds a token and no
\* requestTimeout: the token is kept and requestTimeout is still absent
C27_Witness ==
    /\ last = Op("updateConfig", "", TRUE)
    /\ Has(config, "maxTokens") /\ config.maxTokens = MinMaxTokens
    /\ Has(config, "apiToken") /\ config.apiToken = TokShort
    /\ ~Has(config, "requestTimeout")

-----------------------------------------------------------------------------
(* C28: in every state of the running store, getConfigStatus().configured is
   true exactly when sendChatCompletion called in that state gets past its
   configuration check; and every call that was made ended in a
   ConfigurationError exactly when the status of the configuration it read was
   not configured. *)
ChatOps ==
    {"sendChatCompletion", "sendCompletion", "testConnection",
     "POST /completion", "POST /simple", "POST /test"}

C28_StatusAgreesWithGateway ==
    /\ phase = "running" =>
          (GetConfigStatus(config).configured <=>
              ChatCall("sendChatCompletion", Req(EmptyObj), GetConfig(config)).ret.kind
                  # "ConfigurationError")
    /\ (gw.op \in ChatOps /\ gw.cfg # EmptyObj) =>
          (GetConfigStatus(gw.cfg).configured <=> gw.ret.kind # "ConfigurationError")

\* the URL is stored and the token is not: the status reports apiToken missing
\* and the call made in this state failed on the token
C28_Witness ==
    /\ gw.op = "sendChatCompletion"
    /\ gw.ret = ConfigurationError("apiToken")
    /\ gw.cfg = GetConfig(config)
    /\ GetConfigStatus(config) = [configured |-> FALSE, missingFields |-> <<"apiToken">>]

-----------------------------------------------------------------------------
(* C29: through POST /api/config and POST /api/config/api no token that is
   blank after trimming is stored: whenever getConfigStatus() reports configured,
   the stored token is non-empty after trimming. *)
C29_ConfiguredTokenNotBlank ==
    (phase = "running" /\ GetConfigStatus(config).configured) =>
        Len(Trim(GetConfig(config).apiToken)) > 0

-----------------------------------------------------------------------------
(* C30: POST /api/config with a body that holds only one of apiUrl and apiToken,
   or holds either of them empty, is answered 400 and leaves the stored object
   and config.json as they were, whatever else the body holds; a body that holds
   neither is given to updateConfig whole, and the store ends as updateConfig
   of that body leaves it. *)
CarriesHalfApiPair(body) ==
    \/ Has(body, "apiUrl") # Has(body, "apiToken")
    \/ Has(body, "apiUrl") /\ body.apiUrl = EmptyStr
    \/ Has(body, "apiToken") /\ body.apiToken = EmptyStr

C30_HalfApiPairRejected ==
    [][\A body \in ConfigBodies :
          PostConfig(body) =>
              /\ CarriesHalfApiPair(body) =>
                    /\ gw'.http.status = 400
                    /\ UNCHANGED <<config, file>>
              /\ (~Has(body, "apiUrl") /\ ~Has(body, "apiToken")) =>
                    /\ <<config', file'>> = <<UpdateResult(config, file, body, disk)[1],
                                              UpdateResult(config, file, body, disk)[2]>>
                    /\ gw'.http.status = 400
                           <=> UpdateResult(config, file, body, disk)[3] # ""]_vars

\* a body with a URL, no token and a valid maxTokens was answered 400, and the
\* maxTokens it held is not stored
C30_Witness ==
    /\ gw.op = "POST /config"
    /\ gw.req = [apiUrl |-> UrlHttpA, maxTokens |-> MinMaxTokens]
    /\ gw.http = Http(400, {"error"})
    /\ GetConfig(config).maxTokens # MinMaxTokens

====
